---- MODULE Spec2Model ----
(***************************************************************************)
(* Model of the Aethokit gas-sponsorship client (src/lib.rs).              *)
(*                                                                         *)
(* A string that the code inspects character by character (the gas key)   *)
(* is a sequence of one-character strings.  A JSON text (request body,    *)
(* response body) is a sequence of lexical tokens; the serializer writes  *)
(* tokens and the deserializer reads them back, one token at a time.      *)
(* The network is the environment: it decides whether send() and text()   *)
(* fail, which status comes back and which body text is read.             *)
(***************************************************************************)
EXTENDS Integers, Sequences, FiniteSets, TLC

(* ---------------------------- bounds ----------------------------------- *)
MaxKeyLen  == 2   \* longest gas key tried
MaxMembers == 2   \* most members of an object (elements of an array) in a response body
MaxCalls   == 2   \* calls made on one client

(* ---------------------------- Option<T> -------------------------------- *)
None == << >>
Some(x) == << x >>
IsSome(o) == o # None
Unwrap(o) == o[1]

RECURSIVE SeqsUpTo(_, _)
SeqsUpTo(S, n) ==
  IF n = 0 THEN { << >> }
  ELSE LET shorter == SeqsUpTo(S, n - 1)
       IN  shorter \cup { Append(s, x) : s \in { t \in shorter : Len(t) = n - 1 }, x \in S }

(* ---------------------------- gas key strings -------------------------- *)
Chars == { " ", "\n", "k" }
Keys == SeqsUpTo(Chars, MaxKeyLen)
Hints == { None, Some("devnet") }
Txs == { "TXDATA", "TX2" }

\* char::is_whitespace, on the characters tried
is_whitespace(c) == c \in { " ", "\n" }

RECURSIVE trim_start(_)
trim_start(s) ==
  IF s = << >> THEN s
  ELSE IF is_whitespace(Head(s)) THEN trim_start(Tail(s)) ELSE s

RECURSIVE trim_end(_)
trim_end(s) ==
  IF s = << >> THEN s
  ELSE IF is_whitespace(s[Len(s)]) THEN trim_end(SubSeq(s, 1, Len(s) - 1)) ELSE s

\* str::trim
trim(s) == trim_end(trim_start(s))

\* str::is_empty
is_empty(s) == Len(s) = 0

(* ---------------------------- URLs ------------------------------------- *)
\* Url::parse(DEFAULT_BASE_URL): the path "/api/" is the segments "api" and
\* an empty last segment.
DEFAULT_BASE_URL ==
  [scheme |-> "https", host |-> "aethokit.onrender.com", path |-> << "api", "" >>]

\* a join that appends the relative path after the base's last segment
join_append(base, path) == [base EXCEPT !.path = base.path \o << path >>]

\* Url::join with a one-segment relative path: the last segment of the base
\* is replaced by the relative path.
join(base, path) ==
  [base EXCEPT !.path = SubSeq(base.path, 1, Len(base.path) - 1) \o << path >>]

(* ---------------------------- JSON tokens ------------------------------ *)
Punct(c) == [t |-> "punct", v |-> c]
Str(s)   == [t |-> "str", v |-> s]
LBrace   == Punct("{")
RBrace   == Punct("}")
LBracket == Punct("[")
RBracket == Punct("]")
Colon    == Punct(":")
Comma    == Punct(",")
Null     == [t |-> "lit", v |-> "null"]
Raw(s)   == [t |-> "raw", v |-> s]   \* text that is no JSON token

\* a token that is a complete JSON value on its own
IsScalar(tok) == tok.t \in { "str", "lit" }

\* the serializer without skip_serializing_if: an unset hint is written as null
SerializeSponsorTxRequest_null(r) ==
  << LBrace, Str("transaction"), Colon, Str(r.transaction), Comma, Str("rpcOrNetwork"), Colon,
     IF IsSome(r.rpc_or_network) THEN Str(Unwrap(r.rpc_or_network)) ELSE Null, RBrace >>

\* serde_json::to_vec of SponsorTxRequest: `transaction` always, then
\* `rpcOrNetwork` unless skip_serializing_if = "Option::is_none" drops it
SerializeSponsorTxRequest(r) ==
  << LBrace, Str("transaction"), Colon, Str(r.transaction) >>
  \o (IF IsSome(r.rpc_or_network)
      THEN << Comma, Str("rpcOrNetwork"), Colon, Str(Unwrap(r.rpc_or_network)) >>
      ELSE << >>)
  \o << RBrace >>

(* ---------------------------- Result<T, AethokitError> ----------------- *)
Ok(v) == [tag |-> "Ok", value |-> v]
MissingGasKey == [tag |-> "MissingGasKey"]
Http(cause) == [tag |-> "Http", cause |-> cause]
UnexpectedStatus(status, body) == [tag |-> "UnexpectedStatus", status |-> status, body |-> body]
Serde == [tag |-> "Serde"]
IsErr(r) == r.tag # "Ok"

(* ---------------------------- deserializer ----------------------------- *)
\* The visit_map that #[derive(Deserialize)] generates for a struct with one
\* required String field called `name`, driven by serde_json's MapAccess.
\* i is the next token to read, first says that no member was read yet,
\* field0 is the field's value so far.
RECURSIVE visit_map(_, _, _, _, _)
visit_map(toks, i, first, field0, name) ==
  IF i > Len(toks) THEN Serde                                   \* EOF while parsing an object
  ELSE IF toks[i] = RBrace THEN
         IF ~IsSome(field0) THEN Serde                          \* missing field
         ELSE IF i # Len(toks) THEN Serde                       \* trailing characters
         ELSE Ok(Unwrap(field0))
  ELSE LET j == IF first THEN i
                ELSE IF toks[i] = Comma THEN i + 1 ELSE 0
       IN  IF j = 0 THEN Serde                                  \* expected `,` or `}`
           ELSE IF j + 2 > Len(toks) THEN Serde                 \* EOF
           ELSE IF toks[j].t # "str" THEN Serde                 \* key must be a string
           ELSE IF toks[j + 1] # Colon THEN Serde               \* expected `:`
           ELSE IF toks[j].v = name THEN
                  IF IsSome(field0) THEN Serde                  \* duplicate field
                  ELSE IF toks[j + 2].t = "str"
                       THEN visit_map(toks, j + 3, FALSE, Some(toks[j + 2].v), name)
                       ELSE Serde                               \* invalid type, expected a string
           ELSE IF IsScalar(toks[j + 2])                        \* IgnoredAny
                THEN visit_map(toks, j + 3, FALSE, field0, name)
                ELSE Serde

\* The generated visit_seq: a one-element array holding the field.
visit_seq(toks) ==
  IF Len(toks) < 2 THEN Serde                                   \* EOF
  ELSE IF toks[2].t # "str" THEN Serde                          \* invalid length 0 / invalid type
  ELSE IF Len(toks) < 3 \/ toks[3] # RBracket THEN Serde        \* end_seq: trailing characters
  ELSE IF Len(toks) # 3 THEN Serde
  ELSE Ok(toks[2].v)

\* serde_json::from_str::<R>(&text) for R = GasAddressResponse ("gasAddress")
\* or SponsorTxResponse ("hash"): Ok(the field) or Err(Serde)
from_str(toks, name) ==
  IF toks = << >> THEN Serde                                    \* EOF while parsing a value
  ELSE IF toks[1] = LBrace THEN visit_map(toks, 2, TRUE, None, name)
  ELSE IF toks[1] = LBracket THEN visit_seq(toks)
  ELSE Serde                                                    \* invalid type

\* the wire name of the field each operation's response type requires
FieldOf(op) == IF op = "get_gas_address" THEN "gasAddress" ELSE "hash"

(* ---------------------------- response inputs -------------------------- *)
Statuses == { 199, 200, 299, 300, 500 }

\* StatusCode::is_success
is_success(status) == 200 <= status /\ status < 300

MemberKeys == { "gasAddress", "hash" }
MemberVals == { Str("ABC123"), Str("XYZ789"), Null }

RECURSIVE RenderMembers(_)
RenderMembers(ms) ==
  IF ms = << >> THEN << >>
  ELSE << Str(ms[1][1]), Colon, ms[1][2] >>
       \o (IF Len(ms) > 1 THEN << Comma >> ELSE << >>) \o RenderMembers(Tail(ms))

RECURSIVE RenderElements(_)
RenderElements(es) ==
  IF es = << >> THEN << >>
  ELSE << es[1] >> \o (IF Len(es) > 1 THEN << Comma >> ELSE << >>) \o RenderElements(Tail(es))

ObjectTexts ==
  { << LBrace >> \o RenderMembers(ms) \o << RBrace >> :
      ms \in SeqsUpTo(MemberKeys \X MemberVals, MaxMembers) }
ArrayTexts ==
  { << LBracket >> \o RenderElements(es) \o << RBracket >> :
      es \in SeqsUpTo(MemberVals, MaxMembers) }
TruncatedTexts ==
  { << LBrace >> \o RenderMembers(ms) : ms \in SeqsUpTo(MemberKeys \X MemberVals, 1) }
OtherTexts ==
  { << >>, << Raw("server error") >>, << Str("ABC123") >>, << Null >>,
    << LBrace, Str("gasAddress"), Colon, Str("ABC123"), RBrace, Raw("x") >>,
    << LBrace, Str("hash"), Colon, Str("ABC123"), Comma, RBrace >> }
Bodies == ObjectTexts \cup ArrayTexts \cup TruncatedTexts \cup OtherTexts

(* ---------------------------- state ------------------------------------ *)
VARIABLES
  client,     \* Option<Aethokit>: the constructed client
  newResult,  \* Option of the result tag of Aethokit::new
  wire,       \* the outbound requests put on the network, in order
  calls,      \* calls of get_gas_address / sponsor_tx begun so far
  pc,         \* "idle", "send" (inside req.send().await), "text" (inside res.text().await)
  cur,        \* the running call: its operation and the request it built
  status,     \* Option<StatusCode> of the running or last call
  text,       \* Option of the body text read by the running or last call
  result      \* Option of the value returned by the last finished call

vars == << client, newResult, wire, calls, pc, cur, status, text, result >>

NoCall == [op |-> "none", arg |-> None, request |-> None]

Init ==
  /\ client = None
  /\ newResult = None
  /\ wire = << >>
  /\ calls = 0
  /\ pc = "idle"
  /\ cur = NoCall
  /\ status = None
  /\ text = None
  /\ result = None

(* ---------------------------- Aethokit::new ---------------------------- *)
\* new without the trim: only the empty key is refused
new_no_trim(config) ==
  IF is_empty(config.gas_key) THEN MissingGasKey
  ELSE Ok([gas_key |-> config.gas_key,
           base_url |-> DEFAULT_BASE_URL,
           rpc_or_network |-> config.rpc_or_network])

\* new refusing every key that holds a whitespace character
new_strict(config) ==
  IF \E i \in 1..Len(config.gas_key) : is_whitespace(config.gas_key[i]) \/ is_empty(config.gas_key)
  THEN MissingGasKey
  ELSE Ok([gas_key |-> config.gas_key,
           base_url |-> DEFAULT_BASE_URL,
           rpc_or_network |-> config.rpc_or_network])

\* new storing the trimmed key
new_store_trimmed(config) ==
  IF is_empty(trim(config.gas_key)) THEN MissingGasKey
  ELSE Ok([gas_key |-> trim(config.gas_key),
           base_url |-> DEFAULT_BASE_URL,
           rpc_or_network |-> config.rpc_or_network])

\* Aethokit::new as a function of the configuration
new(config) ==
  IF is_empty(trim(config.gas_key)) THEN MissingGasKey
  ELSE Ok([gas_key |-> config.gas_key,
           base_url |-> DEFAULT_BASE_URL,
           rpc_or_network |-> config.rpc_or_network])

New(config) ==
  /\ newResult = None
  /\ LET r == new(config)
     IN  /\ newResult' = Some([tag |-> r.tag, config |-> config])
         /\ client' = IF r.tag = "Ok" THEN Some(r.value) ELSE None
  /\ UNCHANGED << wire, calls, pc, cur, status, text, result >>

(* ---------------------------- make_request ----------------------------- *)
\* HeaderValue::try_from(&String): bytes below 32 other than tab are refused
ValidHeaderValue(s) == \A i \in 1..Len(s) : s[i] # "\n"

\* The RequestBuilder of make_request up to send(): the request, or nothing
\* when a header() call recorded a builder error.
BuildRequest(self, path, method, body) ==
  IF ValidHeaderValue(self.gas_key)
  THEN Some([method  |-> method,
             url     |-> join(self.base_url, path),
             accept  |-> "application/json",
             x_gas_key |-> self.gas_key,
             content_type |-> IF IsSome(body) THEN Some("application/json") ELSE None,
             body    |-> body])
  ELSE None

\* make_request from its entry to the first await: build the request and
\* hand it to the transport
StartRequest(op, arg, path, method, body) ==
  /\ IsSome(client)
  /\ pc = "idle"
  /\ calls < MaxCalls
  /\ LET req == BuildRequest(Unwrap(client), path, method, body)
     IN  /\ cur' = [op |-> op, arg |-> arg, request |-> req]
         /\ wire' = IF IsSome(req) THEN Append(wire, Unwrap(req)) ELSE wire
  /\ calls' = calls + 1
  /\ pc' = "send"
  /\ status' = None
  /\ text' = None
  /\ result' = None
  /\ UNCHANGED << client, newResult >>

GetGasAddress ==
  StartRequest("get_gas_address", None, "get-gas-address", "GET", None)

\* the SponsorTxRequest that sponsor_tx builds
SponsorTxRequest(self, tx) ==
  [transaction |-> tx, rpc_or_network |-> self.rpc_or_network]

SponsorTx(tx) ==
  /\ IsSome(client)
  /\ StartRequest("sponsor_tx", Some(tx), "sponsor-tx", "POST",
                  Some(SerializeSponsorTxRequest(SponsorTxRequest(Unwrap(client), tx))))

\* a send that, on a transport failure, sends the request a second time
SendFails_retry ==
  /\ pc = "send"
  /\ result' = Some(Http(IF IsSome(cur.request) THEN "transport" ELSE "builder"))
  /\ wire' = IF IsSome(cur.request) THEN Append(wire, Unwrap(cur.request)) ELSE wire
  /\ pc' = "idle"
  /\ UNCHANGED << client, newResult, calls, cur, status, text >>

\* a send whose failure is reported as a status error
SendFails_status ==
  /\ pc = "send"
  /\ result' = Some(UnexpectedStatus(0, << >>))
  /\ pc' = "idle"
  /\ UNCHANGED << client, newResult, wire, calls, cur, status, text >>

\* `req.send().await?` fails: a builder error, or a transport failure
SendFails ==
  /\ pc = "send"
  /\ result' = Some(Http(IF IsSome(cur.request) THEN "transport" ELSE "builder"))
  /\ pc' = "idle"
  /\ UNCHANGED << client, newResult, wire, calls, cur, status, text >>

\* `req.send().await?` yields a response; `res.status()`
SendOk(s) ==
  /\ pc = "send"
  /\ IsSome(cur.request)
  /\ status' = Some(s)
  /\ pc' = "text"
  /\ UNCHANGED << client, newResult, wire, calls, cur, text, result >>

\* the status classified before the body is read
TextFails_classify_first ==
  /\ pc = "text"
  /\ result' = Some(IF is_success(Unwrap(status)) THEN Http("body")
                    ELSE UnexpectedStatus(Unwrap(status), << >>))
  /\ pc' = "idle"
  /\ UNCHANGED << client, newResult, wire, calls, cur, status, text >>

\* `res.text().await?` fails while the body is read
TextFails ==
  /\ pc = "text"
  /\ result' = Some(Http("body"))
  /\ pc' = "idle"
  /\ UNCHANGED << client, newResult, wire, calls, cur, status, text >>

\* decoding tried before the status is looked at
Classify_decode_first(s, body, name) ==
  IF from_str(body, name).tag = "Ok" THEN from_str(body, name)
  ELSE IF ~is_success(s) THEN UnexpectedStatus(s, body)
  ELSE Serde

\* a decode failure replaced by the default value (unwrap_or_default)
Classify_default(s, body, name) ==
  IF ~is_success(s) THEN UnexpectedStatus(s, body)
  ELSE IF from_str(body, name).tag = "Ok" THEN from_str(body, name)
  ELSE Ok("")

\* make_request after the body was read: classify, then decode
Classify(s, body, name) ==
  IF ~is_success(s) THEN UnexpectedStatus(s, body)
  ELSE from_str(body, name)

\* `res.text().await?` yields the body; the rest of make_request and the
\* operation's `Ok(resp.field)`
TextOk(body) ==
  /\ pc = "text"
  /\ text' = Some(body)
  /\ result' = Some(Classify(Unwrap(status), body, FieldOf(cur.op)))
  /\ pc' = "idle"
  /\ UNCHANGED << client, newResult, wire, calls, cur, status >>

Next ==
  \/ \E k \in Keys, h \in Hints : New([gas_key |-> k, rpc_or_network |-> h])
  \/ GetGasAddress
  \/ \E tx \in Txs : SponsorTx(tx)
  \/ SendFails
  \/ \E s \in Statuses : SendOk(s)
  \/ TextFails
  \/ \E b \in Bodies : TextOk(b)

Spec == Init /\ [][Next]_vars

TypeOK ==
  /\ pc \in { "idle", "send", "text" }
  /\ calls \in 0..MaxCalls
  /\ Len(wire) <= calls

(* ======================================================================= *)
(* Properties                                                              *)
(* ======================================================================= *)

\* the configuration Aethokit::new was called with, and what it returned
Config == Unwrap(newResult).config
NewTag == Unwrap(newResult).tag

\* a key made of whitespace only (the empty key included), character by character
AllWhitespace(k) == \A i \in 1..Len(k) : k[i] \in { " ", "\n" }

\* JSON grammar of flat texts, by token position
IsFlatObject(toks) ==
  /\ Len(toks) >= 2
  /\ toks[1] = LBrace
  /\ toks[Len(toks)] = RBrace
  /\ LET n == Len(toks) - 2
     IN  \/ n = 0
         \/ /\ n % 4 = 3
            /\ \A k \in 0..(n \div 4) :
                 /\ toks[2 + 4 * k].t = "str"
                 /\ toks[3 + 4 * k] = Colon
                 /\ toks[4 + 4 * k].t \in { "str", "lit" }
                 /\ k < n \div 4 => toks[5 + 4 * k] = Comma
IsFlatArray(toks) ==
  /\ Len(toks) >= 2
  /\ toks[1] = LBracket
  /\ toks[Len(toks)] = RBracket
  /\ LET n == Len(toks) - 2
     IN  \/ n = 0
         \/ /\ n % 2 = 1
            /\ \A k \in 0..(n \div 2) :
                 /\ toks[2 + 2 * k].t \in { "str", "lit" }
                 /\ k < n \div 2 => toks[3 + 2 * k] = Comma
IsJsonText(toks) ==
  \/ IsFlatObject(toks)
  \/ IsFlatArray(toks)
  \/ Len(toks) = 1 /\ toks[1].t \in { "str", "lit" }
KeyPositions(toks) == { p \in 2..(Len(toks) - 1) : (p - 2) % 4 = 0 }
\* a JSON object without any member called name
ObjectMissing(toks, name) ==
  IsFlatObject(toks) /\ \A p \in KeyPositions(toks) : toks[p].v # name
\* a JSON object with one member called name, whose value is the string v
ObjectHasString(toks, name, v) ==
  /\ IsFlatObject(toks)
  /\ Cardinality({ p \in KeyPositions(toks) : toks[p].v = name }) = 1
  /\ \E p \in KeyPositions(toks) : toks[p].v = name /\ toks[p + 2] = Str(v)

Is2xx(s) == s \div 100 = 2

\* a call has returned after reading a response body
BodyRead == pc = "idle" /\ IsSome(result) /\ IsSome(status) /\ IsSome(text)

\* C1: Aethokit::new with an empty or whitespace-only gas key returns
\* MissingGasKey and no client, whatever the rpc_or_network hint is.
C1_BlankKeyRejected ==
  (IsSome(newResult) /\ AllWhitespace(Config.gas_key))
    => (NewTag = "MissingGasKey" /\ client = None)

C1_Witness ==
  /\ IsSome(newResult)
  /\ Config.gas_key = << " ", "\n" >>
  /\ Config.rpc_or_network = Some("devnet")
  /\ NewTag = "MissingGasKey"
  /\ client = None

\* C2 as stated: Aethokit::new with any non-empty gas key returns a client.
C2_NonEmptyKeyAccepted ==
  (IsSome(newResult) /\ Len(Config.gas_key) > 0)
    => (NewTag = "Ok" /\ IsSome(client))

\* C2, amended: Aethokit::new with a gas key that holds at least one
\* non-whitespace character returns a client holding the configuration, and the
\* step in which new returns puts no request on the network.
C2_NonBlankKeyAccepted ==
  [][ (newResult = None /\ newResult' # None)
        => /\ wire' = << >> /\ wire = << >> /\ pc' = "idle"
           /\ ~AllWhitespace(Config'.gas_key)
                => /\ NewTag' = "Ok"
                   /\ IsSome(client')
                   /\ Unwrap(client').rpc_or_network = Config'.rpc_or_network ]_vars

C2_Witness ==
  /\ IsSome(newResult)
  /\ Config.gas_key = << " ", "k" >>
  /\ NewTag = "Ok"
  /\ IsSome(client)
  /\ calls = 0
  /\ wire = << >>

\* C3: when a body was read and the status is outside 2xx, the call returns
\* UnexpectedStatus with that status and that body text, whatever the body is;
\* it never returns a success or a decode error.
C3_Non2xxIsUnexpectedStatus ==
  (BodyRead /\ ~Is2xx(Unwrap(status)))
    => Unwrap(result) = [tag |-> "UnexpectedStatus", status |-> Unwrap(status), body |-> Unwrap(text)]

C3_Witness ==
  /\ BodyRead
  /\ cur.op = "sponsor_tx"
  /\ Unwrap(status) = 500
  /\ Unwrap(text) = << LBrace, Str("hash"), Colon, Str("ABC123"), RBrace >>
  /\ Unwrap(result).tag = "UnexpectedStatus"
  /\ Unwrap(result).body = Unwrap(text)

\* C4: a 2xx response whose body is not JSON, or is a JSON object without the
\* required field (hash for sponsor_tx, gasAddress for get_gas_address),
\* returns the Serde error: never a success value, never UnexpectedStatus.
C4_UndecodableIsSerde ==
  (BodyRead /\ Is2xx(Unwrap(status))
     /\ (~IsJsonText(Unwrap(text))
         \/ ObjectMissing(Unwrap(text), IF cur.op = "sponsor_tx" THEN "hash" ELSE "gasAddress")))
    => Unwrap(result) = [tag |-> "Serde"]

C4_Witness ==
  /\ BodyRead
  /\ cur.op = "sponsor_tx"
  /\ Unwrap(status) = 200
  /\ Unwrap(text) = << LBrace, Str("gasAddress"), Colon, Str("ABC123"), RBrace >>
  /\ Unwrap(result).tag = "Serde"

\* C5: every request on the network, of either operation and after any earlier
\* calls, carries x-gas-key equal to the gas key of the configuration,
\* unmodified, and accept: application/json.
C5_HeadersOnEveryRequest ==
  \A i \in 1..Len(wire) :
    /\ wire[i].x_gas_key = Config.gas_key
    /\ wire[i].accept = "application/json"

C5_Witness ==
  /\ Len(wire) = 2
  /\ wire[1].method # wire[2].method
  /\ Config.gas_key = << " ", "k" >>
  /\ wire[2].x_gas_key = << " ", "k" >>

\* the JSON text the claim expects for a transaction and a hint
ExpectedSponsorBody(tx, hint) ==
  IF hint = None
  THEN << LBrace, Str("transaction"), Colon, Str(tx), RBrace >>
  ELSE << LBrace, Str("transaction"), Colon, Str(tx), Comma,
          Str("rpcOrNetwork"), Colon, Str(hint[1]), RBrace >>

\* C6: the request of sponsor_tx(tx) is a POST to sponsor-tx whose JSON body
\* holds transaction = tx, and rpcOrNetwork = the configured hint when one is
\* set and no rpcOrNetwork member at all when none is set.
C6_SponsorTxBody ==
  (cur.op = "sponsor_tx" /\ IsSome(cur.request))
    => /\ wire # << >>
       /\ wire[Len(wire)] = Unwrap(cur.request)
       /\ wire[Len(wire)].method = "POST"
       /\ wire[Len(wire)].url.path = << "api", "sponsor-tx" >>
       /\ wire[Len(wire)].body = << ExpectedSponsorBody(Unwrap(cur.arg), Config.rpc_or_network) >>

C6_Witness ==
  /\ cur.op = "sponsor_tx"
  /\ cur.arg = Some("TXDATA")
  /\ Config.rpc_or_network = None
  /\ wire # << >>
  /\ wire[Len(wire)].body
       = Some(<< LBrace, Str("transaction"), Colon, Str("TXDATA"), RBrace >>)

\* C7: the request of get_gas_address is a GET to get-gas-address under the
\* base endpoint, without a body; and a 2xx response whose body is a JSON
\* object with a string member gasAddress (one member of that name) returns that string.
C7_GetGasAddress ==
  /\ (cur.op = "get_gas_address" /\ IsSome(cur.request))
       => /\ wire # << >>
          /\ wire[Len(wire)] = Unwrap(cur.request)
          /\ wire[Len(wire)].method = "GET"
          /\ wire[Len(wire)].url
               = [scheme |-> "https", host |-> "aethokit.onrender.com",
                  path |-> << "api", "get-gas-address" >>]
          /\ wire[Len(wire)].body = None
  /\ (cur.op = "get_gas_address" /\ BodyRead /\ Is2xx(Unwrap(status)))
       => \A v \in { "ABC123", "XYZ789" } :
            ObjectHasString(Unwrap(text), "gasAddress", v)
              => Unwrap(result) = [tag |-> "Ok", value |-> v]

C7_Witness ==
  /\ cur.op = "get_gas_address"
  /\ BodyRead
  /\ Unwrap(status) = 200
  /\ Unwrap(text) = << LBrace, Str("gasAddress"), Colon, Str("ABC123"), RBrace >>
  /\ Unwrap(result) = [tag |-> "Ok", value |-> "ABC123"]
  /\ wire[Len(wire)].method = "GET"

\* C8: when the send fails and no response (no status) was obtained, the call
\* returns the Http error: never UnexpectedStatus, Serde or a success value.
C8_SendFailureIsHttp ==
  (pc = "idle" /\ IsSome(result) /\ status = None)
    => Unwrap(result).tag = "Http"

C8_Witness ==
  /\ pc = "idle"
  /\ IsSome(result)
  /\ status = None
  /\ IsSome(cur.request)
  /\ Unwrap(result).tag = "Http"

C10_BodyFailureIsHttp ==
  /\ (pc = "idle" /\ IsSome(result) /\ IsSome(status) /\ text = None)
       => Unwrap(result).tag = "Http"
  /\ (IsSome(result) /\ Unwrap(result).tag = "UnexpectedStatus")
       => /\ IsSome(status) /\ ~Is2xx(Unwrap(status)) /\ IsSome(text)
          /\ Unwrap(result).status = Unwrap(status)
          /\ Unwrap(result).body = Unwrap(text)

C10_Witness ==
  /\ pc = "idle"
  /\ IsSome(result)
  /\ IsSome(status)
  /\ Unwrap(status) = 500
  /\ text = None
  /\ Unwrap(result).tag = "Http"
====
